---------------------------- MODULE Spec2Model ----------------------------
(***************************************************************************)
(* Model of src-tauri/src/lib.rs (statisfy): the bootstrap `run()` that    *)
(* installs the single-instance guard, the deep-link plugin and the setup  *)
(* closure (activation listener + scheme registration) and then enters the *)
(* run loop.                                                               *)
(*                                                                         *)
(* Several application processes (Procs) run the same `run()`.  The parts  *)
(* of the behaviour that live inside the guard plugin (lock, handoff,      *)
(* exit) are not in lib.rs; they are modelled from section 4.1 of the      *)
(* specification.  Everything else follows lib.rs line by line.            *)
(***************************************************************************)
EXTENDS Integers, Sequences, FiniteSets, TLC

\* ------------------------------------------------------------------ bounds
NProcs == 3
MaxActs == 1

\* --------------------------------------------------------------- constants
\* lib.rs:29  app_handle.emit("deep-link", url)
EventName == "deep-link"
\* lib.rs:36  app.deep_link().register("statisfy")
Scheme == "statisfy"

Procs == 1..NProcs
NoProc == 0

\* ------------------------------------------------------------ URL strings
\* url::Url as handed to the listener by event.urls() and serialised by
\* emit: a parsed URL keeps its (lower-cased) scheme and its normalised
\* serialisation (href).  Parsing is not the identity: the scheme is
\* lower-cased and a special-scheme URL gets its path "/".
NotUrl == [ok |-> FALSE, scheme |-> "", href |-> ""]

ParseUrl(s) ==
  CASE s = "statisfy://open/42" -> [ok |-> TRUE, scheme |-> "statisfy", href |-> "statisfy://open/42"]
    [] s = "STATISFY://b"       -> [ok |-> TRUE, scheme |-> "statisfy", href |-> "statisfy://b"]
    [] s = "statisfy://b"       -> [ok |-> TRUE, scheme |-> "statisfy", href |-> "statisfy://b"]
    [] s = "https://x"          -> [ok |-> TRUE, scheme |-> "https",    href |-> "https://x/"]
    [] s = "https://x/"         -> [ok |-> TRUE, scheme |-> "https",    href |-> "https://x/"]
    [] OTHER                    -> NotUrl

\* an argument is a deep link iff it parses as a URL of the registered scheme
IsSchemeUrl(s) == ParseUrl(s).ok /\ ParseUrl(s).scheme = Scheme

\* argument lists of a launch (program name left out)
ArgLists ==
  { <<"STATISFY://b">>,
    <<"--flag", "statisfy://open/42", "notaurl">> }

\* the working directory of a launch
Cwds == {"/work"}

\* batches of URLs an OS activation can carry (RunEvent::Opened hands over
\* every URL the application was opened with, whatever its scheme)
Batches ==
  { << ParseUrl("statisfy://open/42") >>,
    << ParseUrl("https://x"), ParseUrl("STATISFY://b"), ParseUrl("statisfy://open/42") >> }

VARIABLES
  desktop,        \* build configuration: cfg(desktop)
  osCanRegister,  \* whether the OS lets this application own the scheme
  osAssoc,        \* persistent OS association of the scheme with the application
  pc,             \* position of each process in run()
  role,           \* InstanceRole decided by the guard ("None" before / without it)
  lock,           \* holder of the single-instance lock
  launched,       \* number of launches that have reached the guard so far
  retried,        \* the Secondary tried to re-acquire the lock
  steps,          \* startup steps each process has performed, in order
  exitCode,       \* exit code of a terminated process (-1 while alive)
  args, cwd,      \* LaunchInvocation of each Secondary, as the guard captured it
  sent,           \* the invocation each Secondary transmitted (<<>> if none)
  handoffLog,     \* the argv lists the guard callback printed, per process
  listener,       \* on_open_url listener installed
  regResult,      \* result of register("statisfy")
  regReport,      \* what the match arm printed
  setupResult,    \* what the setup closure returned
  uiAttached,     \* a UI listener for "deep-link" is attached
  acts,           \* activations delivered to running processes, in arrival order
  emitted,        \* emits issued, in order, each with its result
  delivered       \* events a UI listener received, in order

buildVars == << desktop, osCanRegister >>
guardVars == << role, lock, launched, retried >>
invocVars == << args, cwd, sent, handoffLog >>
setupVars == << osAssoc, listener, regResult, regReport, setupResult >>
eventVars == << acts, emitted, delivered >>

vars == << buildVars, guardVars, invocVars, setupVars, eventVars,
           pc, steps, exitCode, uiAttached >>

Init ==
  /\ desktop \in BOOLEAN
  /\ osCanRegister \in BOOLEAN
  /\ osAssoc = FALSE
  /\ pc = [p \in Procs |-> "off"]
  /\ role = [p \in Procs |-> "None"]
  /\ lock = NoProc
  /\ launched = 0
  /\ retried = [p \in Procs |-> FALSE]
  /\ steps = [p \in Procs |-> <<>>]
  /\ exitCode = [p \in Procs |-> -1]
  /\ args = [p \in Procs |-> <<>>]
  /\ cwd = [p \in Procs |-> ""]
  /\ sent = [p \in Procs |-> <<>>]
  /\ handoffLog = [p \in Procs |-> <<>>]
  /\ listener = [p \in Procs |-> FALSE]
  /\ regResult = [p \in Procs |-> "none"]
  /\ regReport = [p \in Procs |-> "none"]
  /\ setupResult = [p \in Procs |-> "none"]
  /\ uiAttached = [p \in Procs |-> FALSE]
  /\ acts = <<>>
  /\ emitted = <<>>
  /\ delivered = <<>>

Alive(p) == pc[p] \notin {"off", "exited", "panicked"}

\* ------------------------------------------------------------ guard
\* a build that installs the guard on every platform
GuardInstalledAlways == TRUE

\* lib.rs:8-11  the guard plugin is part of the build only under cfg(desktop)
GuardInstalled == desktop

\* a lock test that does not see the holder (test and set not atomic)
LockFreeRacy(l) == TRUE

\* section 4.1: the lock is free when no process holds it
LockFree(l) == l = NoProc

\* lib.rs:5-19 and section 4.1: launch number p enters run(), which builds
\* the application, and reaches the guard: acquire(app_identity).  Nothing a
\* process does before the guard can be observed, so launches are numbered
\* in the order in which they reach it.  The test of the lock and its taking
\* are one atomic step; the loser becomes Secondary.
Acquire(p) ==
  /\ GuardInstalled
  /\ p = launched + 1
  /\ pc[p] = "off"
  /\ launched' = launched + 1
  /\ IF LockFree(lock)
       THEN /\ lock' = p
            /\ role' = [role EXCEPT ![p] = "Primary"]
            /\ pc' = [pc EXCEPT ![p] = "setup"]
       ELSE /\ lock' = lock
            /\ role' = [role EXCEPT ![p] = "Secondary"]
            /\ pc' = [pc EXCEPT ![p] = "handoff"]
  /\ steps' = [steps EXCEPT ![p] = Append(@, "acquire")]
  /\ UNCHANGED << buildVars, invocVars, setupVars, eventVars, retried, exitCode,
                  uiAttached >>

\* lib.rs:5-19  without cfg(desktop) there is no guard: launch number p
\* enters run() and goes on to setup.  A mobile OS keeps one process per
\* application, so the launch finds no live process.
NoGuard(p) ==
  /\ ~GuardInstalled
  /\ p = launched + 1
  /\ pc[p] = "off"
  /\ \A q \in Procs : ~Alive(q)
  /\ launched' = launched + 1
  /\ pc' = [pc EXCEPT ![p] = "setup"]
  /\ UNCHANGED << buildVars, invocVars, setupVars, eventVars, role, lock, retried,
                  steps, exitCode, uiAttached >>

\* a transmission that leaves the working directory out
InvocationNoCwd(p, a, c) == [from |-> p, args |-> a, cwd |-> ""]

\* section 4.1: what a Secondary transmits: full argument list and cwd
Invocation(p, a, c) == [from |-> p, args |-> a, cwd |-> c]

\* section 4.1: exit code of a Secondary after a successful transmission
HandoffExitCode == 0

\* section 4.1 failure mode: the Primary is gone, the transmission fails
TransmitFail(p) ==
  /\ pc[p] = "handoff"
  /\ lock = NoProc
  /\ pc' = [pc EXCEPT ![p] = "fallback"]
  /\ UNCHANGED << buildVars, guardVars, invocVars, setupVars, eventVars, steps,
                  exitCode, uiAttached >>

\* an exhausted handoff that exits as if it had succeeded
FallbackExitCodeZero == HandoffExitCode

\* section 4.1 / 7: exit code of a Secondary whose fallback failed (non-zero)
FallbackExitCode == 1

\* section 4.1 / 7: one fallback re-acquisition, otherwise exit non-zero
Reacquire(p) ==
  /\ pc[p] = "fallback"
  /\ ~retried[p]
  /\ retried' = [retried EXCEPT ![p] = TRUE]
  /\ steps' = [steps EXCEPT ![p] = Append(@, "reacquire")]
  /\ IF LockFree(lock)
       THEN /\ lock' = p
            /\ role' = [role EXCEPT ![p] = "Primary"]
            /\ pc' = [pc EXCEPT ![p] = "setup"]
            /\ exitCode' = exitCode
       ELSE /\ lock' = lock
            /\ role' = role
            /\ pc' = [pc EXCEPT ![p] = "exited"]
            /\ exitCode' = [exitCode EXCEPT ![p] = FallbackExitCode]
  /\ UNCHANGED << buildVars, invocVars, setupVars, eventVars, launched, uiAttached >>

\* ------------------------------------------------------------ setup closure
\* a setup closure that never installs the listener
InstallListenerNever(p) == listener

\* lib.rs:25  app.deep_link().on_open_url(...) installs the listener
InstallListener(p) == [listener EXCEPT ![p] = TRUE]

\* section 4.2: register(scheme) succeeds iff the OS lets the application own
\* the scheme; it is a no-op success when already registered.
RegisterOutcome == IF osCanRegister THEN "ok" ELSE "err"

\* a registrar that refuses a scheme it already has associated
RegisterDuplicateError(assoc) ==
  [res |-> IF assoc THEN "err" ELSE RegisterOutcome,
   assoc |-> assoc \/ RegisterOutcome = "ok"]

\* lib.rs:36 and section 4.2  register(scheme) on an OS whose association
\* of the scheme is `assoc`: the result returned and the association after
\* the call; registering what is already registered is a no-op success.
Register(assoc) ==
  [res |-> RegisterOutcome,
   assoc |-> assoc \/ RegisterOutcome = "ok"]

\* lib.rs:36-39  the two match arms: println on Ok, eprintln on Err
ReportOf(res) == IF res = "ok" THEN "registered" ELSE "failed"

\* a closure that propagates the registration error (register(..)?)
SetupReturnStrict(res) == IF res = "err" THEN "Err" ELSE "Ok"

\* lib.rs:42  the closure returns Ok(()) whatever register returned
SetupReturn(res) == "Ok"

\* lib.rs:20-43  the setup closure: install the listener, then (desktop)
\* register the scheme and report the result, then return Ok(()).
Setup(p) ==
  /\ pc[p] = "setup"
  /\ listener' = InstallListener(p)
  /\ IF desktop
       THEN /\ regResult' = [regResult EXCEPT ![p] = Register(osAssoc).res]
            /\ regReport' = [regReport EXCEPT ![p] = ReportOf(Register(osAssoc).res)]
            /\ osAssoc' = Register(osAssoc).assoc
            /\ setupResult' = [setupResult EXCEPT ![p] = SetupReturn(Register(osAssoc).res)]
            /\ steps' = [steps EXCEPT ![p] = @ \o << "listen", "register" >>]
       ELSE /\ UNCHANGED << regResult, regReport, osAssoc >>
            /\ setupResult' = [setupResult EXCEPT ![p] = SetupReturn("none")]
            /\ steps' = [steps EXCEPT ![p] = Append(@, "listen")]
  /\ pc' = [pc EXCEPT ![p] = "ready"]
  /\ UNCHANGED << buildVars, guardVars, invocVars, eventVars, exitCode, uiAttached >>

\* the lock after process p has died: the OS frees a dead holder's lock
LockAfterDeath(p) == IF lock = p THEN NoProc ELSE lock

\* lib.rs:45-47  builder.run(...).expect(...): the run loop starts when setup
\* returned Ok; a setup error panics.
RunLoop(p) ==
  /\ pc[p] = "ready"
  /\ steps' = [steps EXCEPT ![p] = Append(@, IF setupResult[p] = "Ok" THEN "run" ELSE "abort")]
  /\ IF setupResult[p] = "Ok"
       THEN /\ pc' = [pc EXCEPT ![p] = "running"]
            /\ UNCHANGED << lock, exitCode >>
       ELSE /\ pc' = [pc EXCEPT ![p] = "panicked"]
            /\ exitCode' = [exitCode EXCEPT ![p] = 101]
            /\ lock' = LockAfterDeath(p)
  /\ UNCHANGED << buildVars, invocVars, setupVars, eventVars, role, launched,
                  retried, uiAttached >>

\* lib.rs:45-47  the application is closed by its user: the run loop ends
\* and the process exits normally, which frees the lock.  The exits that
\* matter to the guard are those that happen while a Secondary is handing
\* off (section 4.1, "Primary crashed mid-handoff").
Quit(p) ==
  /\ pc[p] = "running"
  /\ \E s \in Procs : pc[s] = "handoff"
  /\ pc' = [pc EXCEPT ![p] = "exited"]
  /\ exitCode' = [exitCode EXCEPT ![p] = 0]
  /\ lock' = LockAfterDeath(p)
  /\ uiAttached' = [uiAttached EXCEPT ![p] = FALSE]
  /\ steps' = [steps EXCEPT ![p] = Append(@, "quit")]
  /\ UNCHANGED << buildVars, invocVars, setupVars, eventVars, role, launched, retried >>

\* ------------------------------------------------------------ publishing
\* an emit that can fail whether or not a UI listener is attached
EmitOutcomesAnyErr(attached) == {"Ok", "Err"}

\* lib.rs:29  results emit can return: with no UI listener attached there is
\* nothing to deliver to and emit returns Ok; with one attached the delivery
\* to the webview can fail.
EmitOutcomes(attached) == IF attached THEN {"Ok", "Err"} ELSE {"Ok"}

\* lib.rs:29  one emit("deep-link", url): event name and serialised URL,
\* the result emit returned, and whether a UI listener was there to hear it
Event(p, url, act, res) ==
  [proc |-> p, name |-> EventName, payload |-> url.href, act |-> act,
   ok |-> (res = "Ok"), heard |-> uiAttached[p]]

\* lib.rs:28-30  how far the loop can get: all Len(urls) emits return Ok
\* (j = Len(urls)), or emits 1..j return Ok and emit j+1 returns Err, which
\* unwrap turns into a panic.
LoopOutcomes(p, urls) ==
  { j \in 0..Len(urls) :
      /\ (j > 0 => "Ok" \in EmitOutcomes(uiAttached[p]))
      /\ (j < Len(urls) => "Err" \in EmitOutcomes(uiAttached[p])) }

\* a loop that goes on with the batch after an emit returned Err
ListenerEventsKeepGoing(p, urls, j, act) ==
  [i \in 1..Len(urls) |-> Event(p, urls[i], act, IF i = j + 1 THEN "Err" ELSE "Ok")]

\* lib.rs:28-30  the emits the loop issues on the batch, in batch order: the
\* j that return Ok and, if the loop stops early, the one that returned Err
ListenerEvents(p, urls, j, act) ==
  [i \in 1..(IF j < Len(urls) THEN j + 1 ELSE j) |->
     Event(p, urls[i], act, IF i <= j THEN "Ok" ELSE "Err")]

\* what the UI listener receives of a sequence of emits
Heard(evs) == SelectSeq(evs, LAMBDA e : e.ok /\ e.heard)

\* lib.rs:29  unwrap() panics when an emit returned Err
Panicked(urls, j) == j < Len(urls)

\* lib.rs:25-31  the listener given to on_open_url, run by process p on the
\* batch `urls` of activation number `act`; j is how many emits returned
\* Ok.  A panic kills the process, which frees the lock.
OnOpenUrl(p, urls, j, act) ==
  /\ emitted' = emitted \o ListenerEvents(p, urls, j, act)
  /\ delivered' = delivered \o Heard(ListenerEvents(p, urls, j, act))
  /\ IF Panicked(urls, j)
       THEN /\ lock' = LockAfterDeath(p)
            /\ uiAttached' = [uiAttached EXCEPT ![p] = FALSE]
       ELSE UNCHANGED << lock, uiAttached >>

\* an activation as recorded on arrival: the process, where it came from
\* (the OS, or the Secondary `from`), the URLs handed to the listener, the
\* arguments a handoff carried, and whether a listener existed
Activation(p, kind, from, urls, a, heard) ==
  [proc |-> p, kind |-> kind, from |-> from, urls |-> urls, args |-> a, heard |-> heard]

OsActs == SelectSeq(acts, LAMBDA r : r.kind = "os")

\* lib.rs:25-31  the OS activates the running application with a batch of
\* URLs; the deep-link plugin calls the on_open_url listener, if one is
\* installed.
OsActivate(p, b) ==
  /\ pc[p] = "running"
  /\ Len(OsActs) < MaxActs
  /\ acts' = Append(acts, Activation(p, "os", NoProc, b, <<>>, listener[p]))
  /\ IF listener[p]
       THEN \E j \in LoopOutcomes(p, b) :
              /\ OnOpenUrl(p, b, j, Len(acts) + 1)
              /\ IF Panicked(b, j)
                   THEN /\ pc' = [pc EXCEPT ![p] = "panicked"]
                        /\ exitCode' = [exitCode EXCEPT ![p] = 101]
                   ELSE UNCHANGED << pc, exitCode >>
       ELSE UNCHANGED << emitted, delivered, lock, uiAttached, pc, exitCode >>
  /\ UNCHANGED << buildVars, invocVars, setupVars, role, launched, retried, steps >>

\* lib.rs:10-13  the guard plugin is configured "with deep-link feature":
\* before it calls the callback, "the deep link event was already
\* triggered" by the plugin for a launch whose only argument is a URL of the
\* scheme (the form in which the OS starts a scheme handler); for any other
\* argument list nothing is raised ("You would need to manually check argv").
PluginUrls(a) ==
  IF Len(a) = 1 /\ IsSchemeUrl(a[1])
    THEN << ParseUrl(a[1]) >>
    ELSE <<>>

\* a callback that prints nothing of the invocation
CallbackSilent(p, m) == [handoffLog EXCEPT ![p] = Append(@, <<>>)]

\* lib.rs:11-14  the callback given to the guard: it prints argv (and ignores
\* _app and _cwd); it publishes nothing.
Callback(p, m) == [handoffLog EXCEPT ![p] = Append(@, m.args)]

\* section 4.1 and lib.rs:11-14  the handoff: the Secondary s captures its
\* LaunchInvocation (arguments a, working directory c), transmits it to the
\* running Primary and terminates with exit code 0; on the Primary's
\* event-processing context the plugin raises its deep-link event (the
\* listener runs), then calls the callback.
Handoff(s, a, c) ==
  /\ pc[s] = "handoff"
  /\ lock # NoProc
  /\ pc[lock] = "running"
  /\ LET q == lock
         m == Invocation(s, a, c)
         urls == PluginUrls(m.args)
     IN /\ args' = [args EXCEPT ![s] = a]
        /\ cwd' = [cwd EXCEPT ![s] = c]
        /\ sent' = [sent EXCEPT ![s] = << m >>]
        /\ acts' = Append(acts, Activation(q, "handoff", s, urls, m.args, listener[q]))
        /\ IF listener[q]
             THEN \E j \in LoopOutcomes(q, urls) :
                    /\ OnOpenUrl(q, urls, j, Len(acts) + 1)
                    /\ IF Panicked(urls, j)
                         THEN /\ pc' = [pc EXCEPT ![s] = "exited", ![q] = "panicked"]
                              /\ exitCode' = [exitCode EXCEPT ![s] = HandoffExitCode, ![q] = 101]
                              /\ handoffLog' = handoffLog
                         ELSE /\ pc' = [pc EXCEPT ![s] = "exited"]
                              /\ exitCode' = [exitCode EXCEPT ![s] = HandoffExitCode]
                              /\ handoffLog' = Callback(q, m)
             ELSE /\ UNCHANGED << emitted, delivered, lock, uiAttached >>
                  /\ pc' = [pc EXCEPT ![s] = "exited"]
                  /\ exitCode' = [exitCode EXCEPT ![s] = HandoffExitCode]
                  /\ handoffLog' = Callback(q, m)
  /\ UNCHANGED << buildVars, setupVars, role, launched, retried, steps >>

\* lib.rs:29  the UI layer attaches its listener for "deep-link"
UiListen(p) ==
  /\ pc[p] = "running"
  /\ ~uiAttached[p]
  /\ uiAttached' = [uiAttached EXCEPT ![p] = TRUE]
  /\ UNCHANGED << buildVars, guardVars, invocVars, setupVars, eventVars, pc, steps,
                  exitCode >>

\* ------------------------------------------------------------ specification
Next ==
  \/ \E p \in Procs : Acquire(p)
  \/ \E p \in Procs : NoGuard(p)
  \/ \E p \in Procs, a \in ArgLists, c \in Cwds : Handoff(p, a, c)
  \/ \E p \in Procs : TransmitFail(p)
  \/ \E p \in Procs : Reacquire(p)
  \/ \E p \in Procs : Setup(p)
  \/ \E p \in Procs : RunLoop(p)
  \/ \E p \in Procs : Quit(p)
  \/ \E p \in Procs, b \in Batches : OsActivate(p, b)
  \/ \E p \in Procs : UiListen(p)

Spec == Init /\ [][Next]_vars

\* ------------------------------------------------------------ claims
Has(seq, x) == \E i \in 1..Len(seq) : seq[i] = x

LivePrimaries == { p \in Procs : role[p] = "Primary" /\ Alive(p) }
Decided == { p \in Procs : role[p] # "None" }
\* no process that ran the application has terminated
NoDeath == \A p \in Procs : pc[p] # "panicked" /\ ~Has(steps[p], "quit")

\* C1: at most one process holds the role Primary at any time, it is the
\* holder of the lock, and as long as no process has died the processes that
\* raced for the lock are exactly one Primary and otherwise Secondaries.
C1_SinglePrimary ==
  /\ Cardinality(LivePrimaries) <= 1
  /\ \A p \in LivePrimaries : lock = p
  /\ (NoDeath /\ Decided # {}) =>
        /\ Cardinality({ p \in Decided : role[p] = "Primary" }) = 1
        /\ \A p \in Decided : role[p] = "Primary" \/ (role[p] = "Secondary" /\ ~retried[p])

\* three launches raced: the first to reach the guard holds the lock, the
\* other two lost and are on the Secondary path
C1_Witness ==
  /\ role[1] = "Primary" /\ Alive(1) /\ lock = 1
  /\ role[2] = "Secondary" /\ pc[2] = "handoff"
  /\ role[3] = "Secondary" /\ pc[3] = "handoff"

\* the handoffs process p received, in arrival order
HandoffsTo(p) == SelectSeq(acts, LAMBDA r : r.kind = "handoff" /\ r.proc = p)

Exited(first, last) == { p \in first..last : pc[p] = "exited" }

\* launch 1 took the lock before any other launch did and is still alive
FirstStays == role[1] = "Primary" /\ Alive(1) /\ NoDeath

\* C2 as stated: while launch 1 is the running Primary, launches 2..N are
\* Secondaries and the callback has been invoked once per finished launch,
\* the i-th invocation with the arguments of launch i+1.
C2_LaunchOrder ==
  FirstStays =>
     /\ \A p \in 2..launched : role[p] \in {"None", "Secondary"}
     /\ Len(handoffLog[1]) = Cardinality(Exited(2, launched))
     /\ \A i \in 1..Len(handoffLog[1]) : handoffLog[1][i] = args[i + 1]

\* C2 amended: while launch 1 is the running Primary, launches 2..N are
\* Secondaries and the callback has been invoked exactly once per Secondary
\* that handed off (N-1 times when all have), the i-th invocation with the
\* arguments of the i-th Secondary to hand off.
C2_HandoffOrder ==
  FirstStays =>
     LET hs == HandoffsTo(1)
     IN /\ \A p \in 2..launched : role[p] \in {"None", "Secondary"}
        /\ Len(handoffLog[1]) = Cardinality(Exited(2, launched))
        /\ Len(handoffLog[1]) = Len(hs)
        /\ { hs[i].from : i \in 1..Len(hs) } = Exited(2, launched)
        /\ \A i \in 1..Len(hs) : handoffLog[1][i] = args[hs[i].from]

\* launches 2 and 3 both handed off to the running launch 1
C2_Witness ==
  /\ role[1] = "Primary"
  /\ pc[1] = "running"
  /\ Len(handoffLog[1]) = 2
  /\ launched = 3

\* the emits issued for activation number i, in order
EventsOf(i) == SelectSeq(emitted, LAMBDA e : e.act = i)

Payloads(evs) == [i \in 1..Len(evs) |-> evs[i].payload]

Hrefs(urls) == [i \in 1..Len(urls) |-> urls[i].href]

\* C3: for every ActivationEvent the listener received, with URLs u1..uk,
\* exactly k events named "deep-link" are published, one per URL, in the
\* order u1..uk.
C3_OnePerUrl ==
  \A i \in 1..Len(acts) :
     (acts[i].kind = "os" /\ acts[i].heard) =>
        /\ Payloads(EventsOf(i)) = Hrefs(acts[i].urls)
        /\ \A k \in 1..Len(EventsOf(i)) : EventsOf(i)[k].name = EventName

\* the deep links among the arguments of an invocation, in argument order,
\* as serialised URLs
RECURSIVE DeepLinksOf(_)
DeepLinksOf(a) ==
  IF a = <<>> THEN <<>>
  ELSE IF IsSchemeUrl(Head(a))
         THEN << ParseUrl(Head(a)).href >> \o DeepLinksOf(Tail(a))
         ELSE DeepLinksOf(Tail(a))

\* C4: for every forwarded LaunchInvocation the Primary received, one
\* "deep-link" event is published per argument that is a well-formed URL of
\* the registered scheme, in argument order, and nothing else.
C4_HandoffPublishesDeepLinks ==
  \A i \in 1..Len(acts) :
     (acts[i].kind = "handoff" /\ acts[i].heard) =>
        Payloads(EventsOf(i)) = DeepLinksOf(acts[i].args)

EventsBy(p) == SelectSeq(emitted, LAMBDA e : e.proc = p)

C6_RegisterFailureTolerated ==
  \A p \in Procs :
     regResult[p] = "err" =>
        /\ regReport[p] = "failed"
        /\ setupResult[p] = "Ok"
        /\ listener[p]
        /\ ~Has(steps[p], "abort")
        /\ (pc[p] # "ready" => Has(steps[p], "run"))

\* a process whose registration failed is in the run loop
C6_Witness ==
  \E p \in Procs : regResult[p] = "err" /\ pc[p] = "running" /\ listener[p]

\* the URLs of the registered scheme in a batch, serialised, in batch order
SchemeHrefs(urls) == Hrefs(SelectSeq(urls, LAMBDA u : u.ok /\ u.scheme = Scheme))

\* C7: every published payload is a valid URL of the registered scheme, and
\* of a batch exactly the URLs of the registered scheme are published, in
\* order, the others being dropped one by one.
C7_SchemePayloads ==
  /\ \A i \in 1..Len(emitted) : IsSchemeUrl(emitted[i].payload)
  /\ \A i \in 1..Len(acts) :
        (acts[i].kind = "os" /\ acts[i].heard) =>
           Payloads(EventsOf(i)) = SchemeHrefs(acts[i].urls)

\* the URLs an activation carries: the URLs of an OS activation, the deep
\* links among the arguments of a handoff
UrlsOf(r) == IF r.kind = "os" THEN Hrefs(r.urls) ELSE DeepLinksOf(r.args)

RECURSIVE UrlsOfAll(_)
UrlsOfAll(rs) == IF rs = <<>> THEN <<>> ELSE UrlsOf(Head(rs)) \o UrlsOfAll(Tail(rs))

ActsOf(p) == SelectSeq(acts, LAMBDA r : r.proc = p)

\* C8: for a running process, the published events are the URLs of its
\* activations (OS activations and handoffs), each exactly once, in arrival
\* order.
C8_ExactlyOnceInOrder ==
  \A p \in Procs :
     pc[p] = "running" => Payloads(EventsBy(p)) = UrlsOfAll(ActsOf(p))

\* C9: a process in the run loop has its listener installed and, if it is
\* the Primary, has attempted the registration; every activation delivered
\* so far found a listener.
C9_ListenerBeforeRunLoop ==
  /\ \A p \in Procs :
        pc[p] = "running" =>
           /\ listener[p]
           /\ (role[p] = "Primary" => regResult[p] # "none")
  /\ \A i \in 1..Len(acts) : acts[i].heard

\* the Primary received an OS activation and a handoff
C9_Witness ==
  \E i, k \in 1..Len(acts) :
     /\ acts[i].kind = "os" /\ acts[k].kind = "handoff"
     /\ acts[i].proc = acts[k].proc
     /\ role[acts[i].proc] = "Primary"

\* the process once took the Secondary path
ResolvedSecondary(p) == role[p] = "Secondary" \/ retried[p]

NoStartup(p) ==
  /\ ~listener[p]
  /\ regResult[p] = "none"
  /\ EventsBy(p) = <<>>
  /\ ~Has(steps[p], "run")

\* C10 as stated: a process that resolved to Secondary never continues
\* startup, and it terminates only with exit code 0 after having transmitted
\* its arguments and working directory.
C10_SecondaryAlwaysExitsZero ==
  \A p \in Procs :
     ResolvedSecondary(p) =>
        /\ pc[p] \in {"handoff", "fallback", "exited"}
        /\ NoStartup(p)
        /\ (pc[p] = "exited" =>
              /\ exitCode[p] = 0
              /\ sent[p] = << [from |-> p, args |-> args[p], cwd |-> cwd[p]] >>)

\* C10 amended: a Secondary whose transmission succeeded has transmitted its
\* arguments and working directory and has terminated with exit code 0
\* without any startup step; while a process has the role Secondary it never
\* registers, installs the listener, publishes or enters the run loop; a
\* Secondary exits with code 0 exactly when it has transmitted.
C10_TransmittedExitsZero ==
  \A p \in Procs :
     /\ sent[p] # <<>> =>
           /\ role[p] = "Secondary"
           /\ pc[p] = "exited"
           /\ exitCode[p] = 0
           /\ args[p] \in ArgLists /\ cwd[p] \in Cwds
           /\ sent[p] = << [from |-> p, args |-> args[p], cwd |-> cwd[p]] >>
     /\ role[p] = "Secondary" =>
           /\ pc[p] \in {"handoff", "fallback", "exited"}
           /\ NoStartup(p)
           /\ (pc[p] = "exited" => (exitCode[p] = 0 <=> sent[p] # <<>>))

\* a Secondary has handed its three arguments and its working directory to
\* the Primary and has exited with code 0
C10_Witness ==
  \E p \in Procs :
     /\ role[p] = "Secondary" /\ pc[p] = "exited" /\ exitCode[p] = 0
     /\ sent[p] # <<>>
     /\ Len(sent[p][1].args) = 3 /\ sent[p][1].cwd \in Cwds

\* the process ended without its user having closed it
SelfTerminated(p) == pc[p] \in {"exited", "panicked"} /\ ~Has(steps[p], "quit")

\* C11: nothing in the core ends the run loop of a Primary: a Primary that
\* entered the run loop and was not closed by its user is still running, and
\* the only processes under the guard that ended by themselves are
\* Secondaries that exited after a handoff that succeeded or was exhausted.
C11_RunLoopNeverEnds ==
  \A p \in Procs :
     /\ (role[p] = "Primary" /\ Has(steps[p], "run") /\ ~Has(steps[p], "quit"))
           => pc[p] = "running"
     /\ (role[p] # "None" /\ SelfTerminated(p)) =>
           /\ role[p] = "Secondary"
           /\ pc[p] = "exited"
           /\ (sent[p] # <<>> \/ retried[p])

\* the number of times x occurs in seq
Count(seq, x) == Cardinality({ i \in 1..Len(seq) : seq[i] = x })

\* C12: a Secondary whose transmission failed tries to re-acquire the lock
\* exactly once: after the attempt it is either a Primary that goes on with
\* startup or has exited with a non-zero code; it never transmitted, never
\* tries again, and at no time are there two live Primaries.
C12_FallbackOnce ==
  /\ Cardinality(LivePrimaries) <= 1
  /\ \A p \in Procs :
        /\ Count(steps[p], "reacquire") = (IF retried[p] THEN 1 ELSE 0)
        /\ pc[p] = "fallback" => (~retried[p] /\ role[p] = "Secondary" /\ sent[p] = <<>>)
        /\ retried[p] =>
              /\ sent[p] = <<>>
              /\ \/ role[p] = "Primary" /\ pc[p] \notin {"handoff", "fallback"}
                 \/ role[p] = "Secondary" /\ pc[p] = "exited" /\ exitCode[p] # 0

\* two Secondaries lost their Primary: one re-acquired the lock and is the
\* running Primary, the other found the lock taken and exited non-zero
C12_Witness ==
  \E p, q \in Procs :
     /\ p # q
     /\ retried[p] /\ role[p] = "Primary" /\ pc[p] = "running" /\ lock = p
     /\ retried[q] /\ role[q] = "Secondary" /\ pc[q] = "exited" /\ exitCode[q] = FallbackExitCode

\* the processes that have called register
Registered == { p \in Procs : regResult[p] # "none" }

IsPrefix(a, b) == Len(a) <= Len(b) /\ \A i \in 1..Len(a) : a[i] = b[i]

\* the startup steps a process has performed, in the order performed
StartupSteps(p) ==
  SelectSeq(steps[p], LAMBDA x : x \in {"acquire", "register", "listen", "run"})

\* C14: every Primary performs its startup steps in the order acquire,
\* register, install the activation listener, enter the run loop.
C14_StartupOrder ==
  \A p \in Procs :
     role[p] = "Primary" =>
        IsPrefix(StartupSteps(p), << "acquire", "register", "listen", "run" >>)

\* what a UI-side consumer can observe of a sequence of emits
Shape(evs) == [i \in 1..Len(evs) |-> [name |-> evs[i].name, payload |-> evs[i].payload]]

\* activation number i found the listener and none of its emits failed
Clean(i) == acts[i].heard /\ \A k \in 1..Len(EventsOf(i)) : EventsOf(i)[k].ok

\* C15: an OS activation and a handoff that carry the same URL sequence are
\* published as the same sequence of events: same name "deep-link", one URL
\* string per event, same payloads.
C15_SamePathSameEvents ==
  \A i, k \in 1..Len(acts) :
     ( /\ acts[i].kind = "os" /\ acts[k].kind = "handoff"
       /\ Clean(i) /\ Clean(k)
       /\ UrlsOf(acts[i]) = UrlsOf(acts[k]) )
     => /\ Shape(EventsOf(i)) = Shape(EventsOf(k))
        /\ \A n \in 1..Len(EventsOf(k)) : EventsOf(k)[n].name = EventName

\* C16: within one batch the published URLs are a prefix of the batch in
\* delivery order: every emit before the last returned Ok, an emit that
\* returned Err is the last of its batch, and a batch without a failed emit
\* is published whole.
C16_PublishedPrefix ==
  \A i \in 1..Len(acts) :
     LET evs == EventsOf(i)
         hrefs == Hrefs(acts[i].urls)
         failed == { n \in 1..Len(evs) : ~evs[n].ok }
     IN /\ IsPrefix(Payloads(evs), hrefs)
        /\ failed \subseteq { Len(evs) }
        /\ (acts[i].heard /\ failed = {}) => Len(evs) = Len(hrefs)
        /\ ~acts[i].heard => evs = <<>>

\* of a batch of three URLs the first was published, the emit of the second
\* returned Err and the third was never emitted
C16_Witness ==
  \E i \in 1..Len(acts) :
     /\ Len(acts[i].urls) = 3
     /\ Len(EventsOf(i)) = 2
     /\ EventsOf(i)[1].ok /\ ~EventsOf(i)[2].ok
     /\ pc[acts[i].proc] = "panicked"

\* the process has gone past the guard into setup
PastGuard(p) == pc[p] \in {"setup", "ready", "running"} \/ Has(steps[p], "listen")

\* C17: on a desktop build a process registers or installs the listener
\* only after the guard decided that it is the Primary, the acquire being
\* its first step; on a non-desktop build no process meets the guard or
\* calls register, and the listener is installed all the same before the
\* run loop.
C17_GuardBeforeSetup ==
  \A p \in Procs :
     /\ desktop =>
           ((PastGuard(p) \/ listener[p] \/ regResult[p] # "none") =>
               /\ role[p] = "Primary"
               /\ steps[p] # <<>> /\ steps[p][1] = "acquire"
               /\ IsPrefix(<< "acquire" >>, StartupSteps(p)))
     /\ (desktop /\ Has(steps[p], "run")) => regResult[p] # "none"
     /\ ~desktop =>
           /\ role[p] = "None" /\ lock = NoProc
           /\ ~Has(steps[p], "acquire") /\ ~Has(steps[p], "register")
           /\ regResult[p] = "none" /\ regReport[p] = "none" /\ ~osAssoc
           /\ (pc[p] \in {"ready", "running"} => listener[p])
           /\ (Has(steps[p], "run") => IsPrefix(<< "listen", "run" >>, steps[p]))

\* a process of a non-desktop build is in the run loop with its listener
\* installed and has published an activation
C17_Witness ==
  \E p \in Procs :
     /\ ~desktop
     /\ pc[p] = "running" /\ listener[p]
     /\ EventsBy(p) # <<>>

==========================================================================
